---------------------------- MODULE Spec2Model ----------------------------
(***************************************************************************)
(* Model of the statistical comparison engine of esm-testing               *)
(* (src/scripts/analyze_results.py), of its driver main, of the latency    *)
(* parsers (src/scripts/parse_ftrace_latency.py, parse_ftrace.py) and of   *)
(* the input generator (src/scripts/generate_input.py).                    *)
(*                                                                         *)
(* Python floats are IEEE-754 binary floating point numbers: every         *)
(* arithmetic operation returns the exact result rounded to the nearest    *)
(* representable number, ties to the even mantissa.  The model keeps that  *)
(* semantics with a mantissa of Prec bits instead of 53 and an unbounded   *)
(* exponent (the samples are far from overflow and underflow).  A float is *)
(* a record [m, e] that stands for m * 2^e, with m odd, or m = 0 and       *)
(* e = 0, so that two floats are equal exactly when the records are.       *)
(* -0.0 is not distinguished from 0.0 (Python's == does not either).       *)
(* A float division by 0.0 raises ZeroDivisionError: the exception is the  *)
(* record ZeroDivisionError, every operation handed it passes it on, and    *)
(* the function in which it was raised returns it.                         *)
(***************************************************************************)
EXTENDS Integers, Sequences, FiniteSets, Bags, TLC

\* Mantissa width of the modelled floating point format.
Prec == 5
\* Longest sample drawn for one configuration.
MaxLen == 3

---------------------------------------------------------------------------
\* Floating point arithmetic

Pow2[i \in 0..30] == IF i = 0 THEN 1 ELSE 2 * Pow2[i - 1]

Abs(n) == IF n < 0 THEN -n ELSE n

RECURSIVE BitLen(_)
BitLen(n) == IF n = 0 THEN 0 ELSE 1 + BitLen(n \div 2)

Zero == [m |-> 0, e |-> 0]

RECURSIVE Norm(_, _)
Norm(m, e) ==
    IF m = 0 THEN Zero
    ELSE IF m % 2 = 0 THEN Norm(m \div 2, e + 1)
    ELSE [m |-> m, e |-> e]

\* (num / den) * 2^e, num > 0 and den > 0, rounded to Prec bits, ties to even.
RECURSIVE RoundRat(_, _, _)
RoundRat(num, den, e) ==
    IF num >= den * Pow2[Prec] THEN RoundRat(num, den * 2, e + 1)
    ELSE IF num < den * Pow2[Prec - 1] THEN RoundRat(num * 2, den, e - 1)
    ELSE LET q == num \div den
             r == num % den
             up == 2 * r > den \/ (2 * r = den /\ q % 2 = 1)
         IN  Norm(IF up THEN q + 1 ELSE q, e)

\* What Python raises at a float division by 0.0.
ZeroDivisionError == [raised |-> "ZeroDivisionError"]

IsFloat(x) == "m" \in DOMAIN x

FNeg(a) == IF ~IsFloat(a) THEN a ELSE [m |-> -a.m, e |-> a.e]

FAbs(a) == IF ~IsFloat(a) THEN a ELSE [m |-> Abs(a.m), e |-> a.e]

\* The sign of n applied to the rounded magnitude.
Signed(n, x) == IF n < 0 THEN FNeg(x) ELSE x

\* An integer as a float (len(values), n - 1, the literals 0, 1, 2, 100).
FromInt(n) == IF n = 0 THEN Zero ELSE Signed(n, RoundRat(Abs(n), 1, 0))

\* A decimal literal num/den of the source as a float.
Literal(num, den) == RoundRat(num, den, 0)

\* Exponent of the bit above the leading bit.
Top(a) == a.e + BitLen(Abs(a.m))

FAdd(a, b) ==
    IF ~IsFloat(a) THEN a
    ELSE IF ~IsFloat(b) THEN b
    ELSE IF a.m = 0 THEN b
    ELSE IF b.m = 0 THEN a
    \* b is below a quarter of the spacing of the floats around a (or a of b)
    ELSE IF Top(a) - Top(b) > Prec + 2 THEN a
    ELSE IF Top(b) - Top(a) > Prec + 2 THEN b
    ELSE LET e == IF a.e < b.e THEN a.e ELSE b.e
             n == a.m * Pow2[a.e - e] + b.m * Pow2[b.e - e]
         IN  IF n = 0 THEN Zero ELSE Signed(n, RoundRat(Abs(n), 1, e))

FSub(a, b) == FAdd(a, FNeg(b))

FMul(a, b) ==
    IF ~IsFloat(a) THEN a
    ELSE IF ~IsFloat(b) THEN b
    ELSE LET n == a.m * b.m
         IN  IF n = 0 THEN Zero ELSE Signed(n, RoundRat(Abs(n), 1, a.e + b.e))

FDiv(a, b) ==
    IF ~IsFloat(a) THEN a
    ELSE IF ~IsFloat(b) THEN b
    ELSE IF b.m = 0 THEN ZeroDivisionError
    ELSE IF a.m = 0 THEN Zero
    ELSE Signed(a.m * b.m, RoundRat(Abs(a.m), Abs(b.m), a.e - b.e))

\* Rounding to nearest never turns a non-zero difference into zero or flips
\* its sign, so the comparisons read the sign of the rounded difference.
FLt(a, b) == LET d == FSub(a, b) IN IsFloat(d) /\ d.m < 0

FLe(a, b) == LET d == FSub(a, b) IN IsFloat(d) /\ d.m <= 0

RECURSIVE ISqrtIn(_, _, _)
\* The largest r in lo..hi with r * r <= n.
ISqrtIn(n, lo, hi) ==
    IF lo = hi THEN lo
    ELSE LET mid == (lo + hi + 1) \div 2
         IN  IF mid * mid <= n THEN ISqrtIn(n, mid, hi) ELSE ISqrtIn(n, lo, mid - 1)

\* math.sqrt of a float a >= 0, correctly rounded.
FSqrt(a) ==
    IF ~IsFloat(a) THEN a
    ELSE IF a.m = 0 THEN Zero
    ELSE LET odd == a.e % 2 = 1
             m2 == IF odd THEN 2 * a.m ELSE a.m
             e2 == IF odd THEN a.e - 1 ELSE a.e
             n == m2 * Pow2[2 * (Prec + 1)]
             r == ISqrtIn(n, 0, Pow2[2 * Prec + 2])
             \* r + 1/2 stands for any point strictly between r and r + 1
             num == IF r * r = n THEN 2 * r ELSE 2 * r + 1
         IN  RoundRat(num, 2, (e2 \div 2) - (Prec + 1))

One == FromInt(1)
Two == FromInt(2)
Half == Literal(1, 2)

---------------------------------------------------------------------------
\* Descriptive statistics

\* Python's None, as a record so that it compares with the records returned.
None == [none |-> TRUE]

RECURSIVE SumFrom(_, _, _)
\* Python's sum(): the running total, left to right, rounded after every addition.
SumFrom(values, i, acc) ==
    IF i > Len(values) THEN acc
    ELSE LET total == FAdd(acc, values[i])
         IN  IF IsFloat(total) THEN SumFrom(values, i + 1, total) ELSE total

Sum(values) == SumFrom(values, 1, Zero)

RECURSIVE MinFrom(_, _, _)
MinFrom(values, i, acc) ==
    IF i > Len(values) THEN acc
    ELSE IF FLt(values[i], acc) THEN MinFrom(values, i + 1, values[i])
    ELSE MinFrom(values, i + 1, acc)

Min(values) == MinFrom(values, 2, values[1])

RECURSIVE MaxFrom(_, _, _)
MaxFrom(values, i, acc) ==
    IF i > Len(values) THEN acc
    ELSE IF FLt(acc, values[i]) THEN MaxFrom(values, i + 1, values[i])
    ELSE MaxFrom(values, i + 1, acc)

Max(values) == MaxFrom(values, 2, values[1])

\* sum(values) / n
Mean(values) == FDiv(Sum(values), FromInt(Len(values)))

\* sum((x - mean) ** 2 for x in values) / (n - 1)
Variance(values, mean) ==
    LET sq == [i \in 1..Len(values) |->
                  LET dx == FSub(values[i], mean) IN FMul(dx, dx)]
    IN  FDiv(Sum(sq), FromInt(Len(values) - 1))

\* The sample size above which the critical value is that of the normal
\* distribution.
LargeSample == 30

\* TValue with >= for >.
TValueFromLarge(n) == IF n >= LargeSample THEN Literal(196, 100) ELSE Two

\* The critical value of the confidence interval.
TValue(n) == IF n > LargeSample THEN Literal(196, 100) ELSE Two

calculate_stats(values) ==
    IF Len(values) = 0 THEN None
    ELSE LET n == Len(values)
             mean == Mean(values)
         IN  IF n < 2
             THEN [n |-> n, mean |-> mean, std |-> Zero,
                   min_val |-> Min(values), max_val |-> Max(values),
                   ci_lower |-> mean, ci_upper |-> mean]
             ELSE LET std == FSqrt(Variance(values, mean))
                      margin == FMul(TValue(n), FDiv(std, FSqrt(FromInt(n))))
                  IN  [n |-> n, mean |-> mean, std |-> std,
                       min_val |-> Min(values), max_val |-> Max(values),
                       ci_lower |-> FSub(mean, margin),
                       ci_upper |-> FAdd(mean, margin)]

---------------------------------------------------------------------------
\* Significance test and effect size

\* math.erf at k/16 for k = 0..48, in units of 1/65536.
ErfTable ==
    <<0, 4616, 9196, 13705, 18109, 22378, 26484, 30402,
      34111, 37596, 40845, 43849, 46606, 49117, 51385, 53419,
      55227, 56824, 58221, 59436, 60483, 61379, 62139, 62780,
      63315, 63758, 64123, 64421, 64663, 64856, 65011, 65133,
      65229, 65304, 65362, 65406, 65440, 65466, 65485, 65499,
      65509, 65517, 65523, 65527, 65529, 65531, 65533, 65534,
      65535>>

\* math.erf of a float y >= 0: the table, interpolated linearly between its
\* points, rounded to a float; 1.0 from y = 3 on.
Erf(y) ==
    IF ~IsFloat(y) THEN y
    ELSE IF y.m = 0 THEN Zero
    ELSE IF Top(y) > 2 THEN One
    ELSE IF Top(y) <= -4 THEN RoundRat(ErfTable[2] * y.m, 65536, y.e + 4)
    ELSE LET den == IF y.e + 4 >= 0 THEN 1 ELSE Pow2[-(y.e + 4)]
             pos == IF y.e + 4 >= 0 THEN y.m * Pow2[y.e + 4] ELSE y.m
             k == pos \div den
             fr == pos % den
         IN  IF k >= 48 THEN One
             ELSE RoundRat(ErfTable[k + 1] * den
                               + (ErfTable[k + 2] - ErfTable[k + 1]) * fr,
                           den * 65536, 0)

normal_cdf(x) == FMul(Half, FAdd(One, Erf(FDiv(x, FSqrt(Two)))))

\* The "no evidence" result of the test.
NoEvidence == [t |-> Zero, p |-> One]

\* TooSmall with "and" for "or".
TooSmallBoth(n1, n2) == n1 < 2 /\ n2 < 2

\* The guard of both functions: a sample too small for a variance.
TooSmall(n1, n2) == n1 < 2 \/ n2 < 2

\* StandardError with n1 under both variances.
StandardErrorSameN(var1, n1, var2, n2) ==
    FSqrt(FAdd(FDiv(var1, FromInt(n1)), FDiv(var2, FromInt(n1))))

\* math.sqrt(var1/n1 + var2/n2)
StandardError(var1, n1, var2, n2) ==
    FSqrt(FAdd(FDiv(var1, FromInt(n1)), FDiv(var2, FromInt(n2))))

\* PValue of one tail only.
PValueOneSided(t_stat) == FSub(One, normal_cdf(FAbs(t_stat)))

\* 2 * (1 - normal_cdf(abs(t_stat)))
PValue(t_stat) == FMul(Two, FSub(One, normal_cdf(FAbs(t_stat))))

\* The Welch-Satterthwaite degrees of freedom (computed, never read).
DegreesOfFreedom(var1, n1, var2, n2) ==
    LET q1 == FDiv(var1, FromInt(n1))
        q2 == FDiv(var2, FromInt(n2))
        s == FAdd(q1, q2)
        num == FMul(s, s)
        denom == FAdd(FDiv(FMul(q1, q1), FromInt(n1 - 1)),
                      FDiv(FMul(q2, q2), FromInt(n2 - 1)))
    IN  IF FLt(Zero, denom) THEN FDiv(num, denom) ELSE One

welch_t_test(sample1, sample2) ==
    LET n1 == Len(sample1)
        n2 == Len(sample2)
    IN  IF TooSmall(n1, n2) THEN NoEvidence
        ELSE LET mean1 == Mean(sample1)
                 mean2 == Mean(sample2)
                 var1 == Variance(sample1, mean1)
                 var2 == Variance(sample2, mean2)
                 se == StandardError(var1, n1, var2, n2)
             IN  IF se = Zero THEN NoEvidence
                 ELSE LET t_stat == FDiv(FSub(mean1, mean2), se)
                          df == DegreesOfFreedom(var1, n1, var2, n2)
                          p_value == PValue(t_stat)
                      IN  IF ~IsFloat(t_stat) \/ ~IsFloat(df) \/ ~IsFloat(p_value)
                          THEN ZeroDivisionError
                          ELSE [t |-> t_stat, p |-> p_value]

\* math.sqrt(((n1-1)*var1 + (n2-1)*var2) / (n1+n2-2))
PooledStd(var1, n1, var2, n2) ==
    FSqrt(FDiv(FAdd(FMul(FromInt(n1 - 1), var1), FMul(FromInt(n2 - 1), var2)),
               FromInt(n1 + n2 - 2)))

cohens_d(sample1, sample2) ==
    LET n1 == Len(sample1)
        n2 == Len(sample2)
    IN  IF TooSmall(n1, n2) THEN Zero
        ELSE LET mean1 == Mean(sample1)
                 mean2 == Mean(sample2)
                 var1 == Variance(sample1, mean1)
                 var2 == Variance(sample2, mean2)
                 pooled_std == PooledStd(var1, n1, var2, n2)
             IN  IF pooled_std = Zero THEN Zero
                 ELSE FDiv(FSub(mean1, mean2), pooled_std)

\* effect_size_interpretation with <= for < (bands inclusive on the upper edge).
effect_size_interpretation_upper(d) ==
    LET a == FAbs(d)
    IN  IF FLe(a, Literal(2, 10)) THEN "negligible"
        ELSE IF FLe(a, Literal(5, 10)) THEN "small"
        ELSE IF FLe(a, Literal(8, 10)) THEN "medium"
        ELSE "large"

effect_size_interpretation(d) ==
    LET a == FAbs(d)
    IN  IF FLt(a, Literal(2, 10)) THEN "negligible"
        ELSE IF FLt(a, Literal(5, 10)) THEN "small"
        ELSE IF FLt(a, Literal(8, 10)) THEN "medium"
        ELSE "large"

---------------------------------------------------------------------------
\* Comparison of one metric

\* ErrorRecord with the (missing) statistics attached.
ErrorRecordWithStats(metric_name) ==
    [metric |-> metric_name, error |-> "Insufficient data",
     baseline |-> None, esm |-> None]

ErrorRecord(metric_name) == [metric |-> metric_name, error |-> "Insufficient data"]

\* Improvement with the branches of the polarity exchanged.
ImprovementExchanged(baseline_stats, esm_stats, lower) ==
    IF lower
    THEN FMul(FDiv(FSub(esm_stats.mean, baseline_stats.mean), baseline_stats.mean),
              FromInt(100))
    ELSE FMul(FDiv(FSub(baseline_stats.mean, esm_stats.mean), baseline_stats.mean),
              FromInt(100))

Improvement(baseline_stats, esm_stats, lower) ==
    IF lower
    THEN FMul(FDiv(FSub(baseline_stats.mean, esm_stats.mean), baseline_stats.mean),
              FromInt(100))
    ELSE FMul(FDiv(FSub(esm_stats.mean, baseline_stats.mean), baseline_stats.mean),
              FromInt(100))

\* Improved with <= and >= for < and >.
ImprovedOrEqual(baseline_stats, esm_stats, lower) ==
    IF lower THEN FLe(esm_stats.mean, baseline_stats.mean)
    ELSE FLe(baseline_stats.mean, esm_stats.mean)

\* Improved with the means compared by magnitude.
ImprovedByMagnitude(baseline_stats, esm_stats, lower) ==
    IF lower THEN FLt(FAbs(esm_stats.mean), FAbs(baseline_stats.mean))
    ELSE FLt(FAbs(baseline_stats.mean), FAbs(esm_stats.mean))

Improved(baseline_stats, esm_stats, lower) ==
    IF lower THEN FLt(esm_stats.mean, baseline_stats.mean)
    ELSE FLt(baseline_stats.mean, esm_stats.mean)

\* Significant with <= for <.
SignificantOrEqual(p_value) == FLe(p_value, Literal(5, 100))

\* p_value < 0.05
Significant(p_value) == FLt(p_value, Literal(5, 100))

\* analyze_metric with the samples handed to the tests in the order of the
\* polarity (the better one first).
analyze_metric_by_polarity(b_values, e_values, metric_name, lower) ==
    LET baseline_stats == calculate_stats(b_values)
        esm_stats == calculate_stats(e_values)
        first == IF lower THEN b_values ELSE e_values
        second == IF lower THEN e_values ELSE b_values
    IN  IF baseline_stats = None \/ esm_stats = None THEN ErrorRecord(metric_name)
        ELSE LET improvement == Improvement(baseline_stats, esm_stats, lower)
                 tp == welch_t_test(first, second)
                 d == cohens_d(first, second)
             IN  IF ~IsFloat(improvement) \/ tp = ZeroDivisionError \/ ~IsFloat(d)
                 THEN ZeroDivisionError
                 ELSE [metric |-> metric_name,
                       baseline |-> baseline_stats,
                       esm |-> esm_stats,
                       improvement_pct |-> improvement,
                       improved |-> Improved(baseline_stats, esm_stats, lower),
                       t_statistic |-> tp.t,
                       p_value |-> tp.p,
                       cohens_d |-> d,
                       effect_size |-> effect_size_interpretation(d),
                       significant |-> Significant(tp.p)]

analyze_metric(b_values, e_values, metric_name, lower) ==
    LET baseline_stats == calculate_stats(b_values)
        esm_stats == calculate_stats(e_values)
    IN  IF baseline_stats = None \/ esm_stats = None THEN ErrorRecord(metric_name)
        ELSE LET improvement == Improvement(baseline_stats, esm_stats, lower)
                 improved == Improved(baseline_stats, esm_stats, lower)
                 tp == welch_t_test(b_values, e_values)
                 d == cohens_d(b_values, e_values)
             IN  IF ~IsFloat(improvement) \/ tp = ZeroDivisionError \/ ~IsFloat(d)
                 THEN ZeroDivisionError
                 ELSE [metric |-> metric_name,
                       baseline |-> baseline_stats,
                       esm |-> esm_stats,
                       improvement_pct |-> improvement,
                       improved |-> improved,
                       t_statistic |-> tp.t,
                       p_value |-> tp.p,
                       cohens_d |-> d,
                       effect_size |-> effect_size_interpretation(d),
                       significant |-> Significant(tp.p)]

---------------------------------------------------------------------------
\* Report

IsError(r) == "error" \in DOMAIN r

\* One row of the Summary table.
SummaryRow(r) ==
    IF IsError(r) THEN [metric |-> r.metric, error |-> r.error]
    ELSE [metric |-> r.metric,
          baseline_mean |-> r.baseline.mean, baseline_n |-> r.baseline.n,
          esm_mean |-> r.esm.mean, esm_n |-> r.esm.n,
          improvement_pct |-> r.improvement_pct,
          p_value |-> r.p_value,
          sig |-> IF r.significant THEN "*" ELSE "",
          effect_size |-> r.effect_size, cohens_d |-> r.cohens_d]

\* One block of the Detailed Results section.
DetailBlock(r) ==
    [metric |-> r.metric, baseline |-> r.baseline, esm |-> r.esm,
     improvement_pct |-> r.improvement_pct, t_statistic |-> r.t_statistic,
     p_value |-> r.p_value, cohens_d |-> r.cohens_d,
     effect_size |-> r.effect_size,
     significant |-> IF r.significant THEN "Yes" ELSE "No"]

IsValidated(r) == ~IsError(r) /\ r.significant /\ r.improved

\* IsRefuted with the elif taken for every record that is not validated.
IsRefutedUnlessValidated(r) == ~IsError(r) /\ ~(r.significant /\ r.improved)

IsRefuted(r) == ~IsError(r) /\ ~(r.significant /\ r.improved) /\ ~r.improved

Metrics(rs) == [i \in 1..Len(rs) |-> rs[i].metric]

\* generate_report with "break" for "continue": every loop ends at the
\* first error record.
generate_report_break(rs) ==
    LET errors == {i \in 1..Len(rs) : IsError(rs[i])}
        stop == IF errors = {} THEN Len(rs) + 1
                ELSE CHOOSE i \in errors : \A j \in errors : i <= j
        before == SubSeq(rs, 1, stop - 1)
        shown == SubSeq(rs, 1, IF stop > Len(rs) THEN Len(rs) ELSE stop)
    IN  [summary |-> [i \in 1..Len(shown) |-> SummaryRow(shown[i])],
         details |-> [i \in 1..Len(before) |-> DetailBlock(before[i])],
         validated |-> Metrics(SelectSeq(before, IsValidated)),
         refuted |-> Metrics(SelectSeq(before, IsRefuted))]

\* The sections generate_report writes, in the order it writes them (the
\* numbers are kept as floats: their decimal formatting is not modelled).
generate_report(rs) ==
    LET kept == SelectSeq(rs, LAMBDA r : ~IsError(r))
    IN  [summary |-> [i \in 1..Len(rs) |-> SummaryRow(rs[i])],
         details |-> [i \in 1..Len(kept) |-> DetailBlock(kept[i])],
         validated |-> Metrics(SelectSeq(rs, IsValidated)),
         refuted |-> Metrics(SelectSeq(rs, IsRefuted))]

---------------------------------------------------------------------------
\* State

VARIABLES
    baseline_values,   \* the first sample handed to the operation
    esm_values,        \* the second sample handed to the operation
    lower_is_better,   \* the polarity handed to analyze_metric
    d_value,           \* the effect size handed to effect_size_interpretation
    results,           \* the records handed to generate_report
    baseline_data,     \* main: the baseline sample of each metric, as loaded
    esm_data,          \* main: the candidate sample of each metric, as loaded
    pc,                \* main: the metric it comes to next (0 outside main)
    trace,             \* the trace file handed to parse_ftrace_file
    events,            \* the events handed to calculate_per_event_latencies
    duration_seconds,  \* mixed_interaction: its argument
    now,               \* mixed_interaction: the clock, in tenths of a second
    start_time,        \* mixed_interaction: the clock as read at the start
    elapsed,           \* mixed_interaction: elapsed, as read in this iteration
    stats,             \* mixed_interaction: the counters
    adb_commands,      \* mixed_interaction: the ADB shell commands issued
    gen_pc,            \* mixed_interaction: its position ("" outside it)
    op,                \* the operation that has run ("" before the call)
    ret                \* what it returned

\* The state of mixed_interaction.
generator == <<duration_seconds, now, start_time, elapsed, stats, adb_commands, gen_pc>>

vars == <<baseline_values, esm_values, lower_is_better, d_value, results,
          baseline_data, esm_data, pc, trace, events, generator, op, ret>>

\* main is not running.
NoRun == baseline_data = <<>> /\ esm_data = <<>> /\ pc = 0

\* No trace file is at hand.
NoTrace == trace = [readable |-> FALSE, lines |-> <<>>]

\* No events are at hand.
NoEvents == events = <<>>

\* The counters as mixed_interaction sets them out.
NoStats == [taps |-> 0, scrolls |-> 0, swipes |-> 0, total_events |-> 0]

\* mixed_interaction is not running.
NoGenerator ==
    /\ duration_seconds = 0
    /\ now = 0
    /\ start_time = 0
    /\ elapsed = 0
    /\ stats = NoStats
    /\ adb_commands = <<>>
    /\ gen_pc = ""

\* The observations the samples are drawn from.
Observations == {FromInt(0), FromInt(2), FromInt(11), FromInt(31)}

SeqsUpTo(S, n) == UNION {[1..k -> S] : k \in 0..n}

Samples == SeqsUpTo(Observations, MaxLen)

\* Samples on both sides of the sample size at which the critical value
\* changes: two observations in turn.
LongSamples ==
    {[i \in 1..n |-> IF i % 2 = 1 THEN x ELSE y] :
        n \in {LargeSample, LargeSample + 1}, x \in Observations, y \in Observations}

\* The observations the two samples of a comparison are drawn from.
PairObservations == {FromInt(0), FromInt(2), FromInt(31)}

PairSamples == SeqsUpTo(PairObservations, MaxLen)

Floats(ints) == [i \in 1..Len(ints) |-> FromInt(ints[i])]

\* The sample pairs of the worked examples: means 100 and 80, and the
\* end-to-end example.
Examples ==
    {<<Floats(<<100>>), Floats(<<80>>)>>,
     <<Floats(<<100, 100>>), Floats(<<80, 80>>)>>,
     <<Floats(<<10, 12, 11, 13, 9, 10, 11, 12>>), Floats(<<8, 9, 8, 10, 7, 8, 9, 8>>)>>}

\* Pairs of constant samples of different means.
ConstantExamples ==
    {<<Floats(<<11, 11>>), Floats(<<2, 2>>)>>,
     <<Floats(<<11, 11, 11>>), Floats(<<2, 2, 2>>)>>,
     <<Floats(<<2, 2, 2>>), Floats(<<11, 11, 11>>)>>}

\* Observations of both signs, and the samples of up to two of them.
SignedObservations == {FromInt(-11), FromInt(-2), FromInt(2)}

SignedSamples == SeqsUpTo(SignedObservations, 2)

MetricName == "Latency - Single Tap (ms)"

\* The names main gives the metrics, in the order it appends them.
MetricNames ==
    <<"Latency - Single Tap (ms)", "Latency - Scroll (ms)",
      "Latency - Fast Swipe (ms)", "CPU - system_server (%)",
      "CPU - Total (%)", "Syscalls (per 100 events)", "Wakeups per second">>

\* Effect sizes handed to effect_size_interpretation: a grid of step
\* 1/DGrid out to DRange steps on both sides of 0, and the band edges.
DGrid == 20
DRange == 40

DValues ==
    LET pos == {Literal(k, DGrid) : k \in 1..DRange}
                   \cup {Literal(2, 10), Literal(5, 10), Literal(8, 10)}
    IN  pos \cup {FNeg(d) : d \in pos} \cup {Zero}

\* Longest sequence of records handed to generate_report.
MaxResults == 3

\* Sample pairs whose comparison is, in this order: improved and not
\* significant, neither, significant and not improved, significant and
\* improved, an error record, a p-value just above the threshold (1/16).
ReportCases ==
    {<<Floats(<<2>>), Floats(<<0>>)>>,
     <<Floats(<<2>>), Floats(<<2>>)>>,
     <<Floats(<<0, 2>>), Floats(<<11, 11>>)>>,
     <<Floats(<<11, 11>>), Floats(<<0, 2>>)>>,
     <<Floats(<<2>>), <<>>>>,
     <<Floats(<<0, 2>>), Floats(<<0, 31, 31>>)>>}

---------------------------------------------------------------------------
\* calculate_stats on one sample

InitStats ==
    /\ baseline_values \in Samples \cup LongSamples
    /\ esm_values = <<>>
    /\ lower_is_better = TRUE
    /\ d_value = Zero
    /\ results = <<>>
    /\ NoRun
    /\ NoTrace
    /\ NoEvents
    /\ NoGenerator
    /\ op = ""
    /\ ret = None

CalculateStats ==
    /\ op = ""
    /\ op' = "calculate_stats"
    /\ ret' = calculate_stats(baseline_values)
    /\ UNCHANGED <<baseline_values, esm_values, lower_is_better, d_value, results,
                 baseline_data, esm_data, pc, trace, events, generator>>

NextStats == CalculateStats

SpecStats == InitStats /\ [][NextStats]_vars

---------------------------------------------------------------------------
\* welch_t_test and cohens_d on a pair of samples

InitTests ==
    /\ baseline_values \in PairSamples
    /\ esm_values \in PairSamples
    /\ lower_is_better = TRUE
    /\ d_value = Zero
    /\ results = <<>>
    /\ NoRun
    /\ NoTrace
    /\ NoEvents
    /\ NoGenerator
    /\ op = ""
    /\ ret = None

WelchTTest ==
    /\ op = ""
    /\ op' = "welch_t_test"
    /\ ret' = welch_t_test(baseline_values, esm_values)
    /\ UNCHANGED <<baseline_values, esm_values, lower_is_better, d_value, results,
                 baseline_data, esm_data, pc, trace, events, generator>>

CohensD ==
    /\ op = ""
    /\ op' = "cohens_d"
    /\ ret' = cohens_d(baseline_values, esm_values)
    /\ UNCHANGED <<baseline_values, esm_values, lower_is_better, d_value, results,
                 baseline_data, esm_data, pc, trace, events, generator>>

NextTests == WelchTTest \/ CohensD

SpecTests == InitTests /\ [][NextTests]_vars

---------------------------------------------------------------------------
\* analyze_metric on a pair of samples and a polarity

InitMetric ==
    /\ \E pair \in (PairSamples \X PairSamples) \cup Examples \cup ConstantExamples
                       \cup (SignedSamples \X SignedSamples) :
           /\ baseline_values = pair[1]
           /\ esm_values = pair[2]
    /\ lower_is_better \in BOOLEAN
    /\ d_value = Zero
    /\ results = <<>>
    /\ NoRun
    /\ NoTrace
    /\ NoEvents
    /\ NoGenerator
    /\ op = ""
    /\ ret = None

AnalyzeMetric ==
    /\ op = ""
    /\ op' = "analyze_metric"
    /\ ret' = analyze_metric(baseline_values, esm_values, MetricName, lower_is_better)
    /\ UNCHANGED <<baseline_values, esm_values, lower_is_better, d_value, results,
                 baseline_data, esm_data, pc, trace, events, generator>>

NextMetric == AnalyzeMetric

SpecMetric == InitMetric /\ [][NextMetric]_vars

---------------------------------------------------------------------------
\* effect_size_interpretation on one effect size

InitEffect ==
    /\ baseline_values = <<>>
    /\ esm_values = <<>>
    /\ lower_is_better = TRUE
    /\ d_value \in DValues
    /\ results = <<>>
    /\ NoRun
    /\ NoTrace
    /\ NoEvents
    /\ NoGenerator
    /\ op = ""
    /\ ret = None

EffectSizeInterpretation ==
    /\ op = ""
    /\ op' = "effect_size_interpretation"
    /\ ret' = effect_size_interpretation(d_value)
    /\ UNCHANGED <<baseline_values, esm_values, lower_is_better, d_value, results,
                 baseline_data, esm_data, pc, trace, events, generator>>

NextEffect == EffectSizeInterpretation

SpecEffect == InitEffect /\ [][NextEffect]_vars

---------------------------------------------------------------------------
\* generate_report on a sequence of comparison records

InitReport ==
    /\ baseline_values = <<>>
    /\ esm_values = <<>>
    /\ lower_is_better = TRUE
    /\ d_value = Zero
    /\ \E cases \in SeqsUpTo(ReportCases, MaxResults) :
           results = [i \in 1..Len(cases) |->
                         analyze_metric(cases[i][1], cases[i][2], MetricNames[i],
                                        lower_is_better)]
    /\ NoRun
    /\ NoTrace
    /\ NoEvents
    /\ NoGenerator
    /\ op = ""
    /\ ret = None

GenerateReport ==
    /\ op = ""
    /\ op' = "generate_report"
    /\ ret' = generate_report(results)
    /\ UNCHANGED <<baseline_values, esm_values, lower_is_better, d_value, results,
                 baseline_data, esm_data, pc, trace, events, generator>>

NextReport == GenerateReport

SpecReport == InitReport /\ [][NextReport]_vars

---------------------------------------------------------------------------
\* main: the metrics in turn, then the report

\* The samples main loads for a metric that is a significant improvement.
PlainCase == <<Floats(<<11, 11>>), Floats(<<0, 2>>)>>

\* The samples main loads for a metric that is none: equal samples, no
\* candidate observation, no baseline observation, a baseline of mean 0.
OtherCases ==
    {<<Floats(<<2>>), Floats(<<2>>)>>,
     <<Floats(<<2>>), <<>>>>,
     <<<<>>, Floats(<<2>>)>>,
     <<Floats(<<0>>), Floats(<<2>>)>>}

\* Most metrics of one run that are not a significant improvement.
MaxOther == 2

\* The samples of a run without result files: load_csv returns [] for each.
NoFiles == [i \in 1..Len(MetricNames) |-> <<<<>>, <<>>>>]

\* The samples of every metric of one run.
MainCases ==
    LET few == {others \in SUBSET (1..Len(MetricNames)) : Cardinality(others) <= MaxOther}
    IN  UNION {{[i \in 1..Len(MetricNames) |->
                    IF i \in others THEN case[i] ELSE PlainCase] :
                case \in [others -> OtherCases]} : others \in few}
        \cup {NoFiles}

\* What main prints in place of a report.
NoResults == [printed |-> "No results to analyze. Run tests first."]

\* results.append with the record put first.
CollectFirst(rs, r) == <<r>> \o rs

\* results.append(r)
Collect(rs, r) == Append(rs, r)

InitMain ==
    /\ baseline_values = <<>>
    /\ esm_values = <<>>
    /\ lower_is_better = TRUE
    /\ d_value = Zero
    /\ results = <<>>
    /\ \E cases \in MainCases :
           /\ baseline_data = [i \in 1..Len(MetricNames) |-> cases[i][1]]
           /\ esm_data = [i \in 1..Len(MetricNames) |-> cases[i][2]]
    /\ pc = 1
    /\ NoTrace
    /\ NoEvents
    /\ NoGenerator
    /\ op = ""
    /\ ret = None

\* One metric of main: compared when both of its samples have observations,
\* passed over otherwise; an exception of analyze_metric ends main.
MainAnalyze ==
    /\ op = ""
    /\ pc \in 1..Len(MetricNames)
    /\ IF baseline_data[pc] # <<>> /\ esm_data[pc] # <<>>
       THEN \E r \in {analyze_metric(baseline_data[pc], esm_data[pc],
                                      MetricNames[pc], TRUE)} :
                IF r = ZeroDivisionError
                THEN /\ op' = "main"
                     /\ ret' = r
                     /\ UNCHANGED <<results, pc>>
                ELSE /\ results' = Collect(results, r)
                     /\ pc' = pc + 1
                     /\ UNCHANGED <<op, ret>>
       ELSE /\ pc' = pc + 1
            /\ UNCHANGED <<results, op, ret>>
    /\ UNCHANGED <<baseline_values, esm_values, lower_is_better, d_value,
                   baseline_data, esm_data, trace, events, generator>>

\* The end of main: the report of the results, if there are any.
MainReport ==
    /\ op = ""
    /\ pc = Len(MetricNames) + 1
    /\ op' = "main"
    /\ ret' = IF results # <<>> THEN generate_report(results) ELSE NoResults
    /\ UNCHANGED <<baseline_values, esm_values, lower_is_better, d_value, results,
                   baseline_data, esm_data, pc, trace, events, generator>>

NextMain == MainAnalyze \/ MainReport

SpecMain == InitMain /\ [][NextMain]_vars

---------------------------------------------------------------------------
\* parse_ftrace_file (src/scripts/parse_ftrace_latency.py)

\* The lines of a trace file, as the two patterns read them.  A timestamp
\* is a decimal text that float() reads exactly: k/64 seconds.
Timestamp(k) == FDiv(FromInt(k), FromInt(64))

InputEventLine(k, type, code, value) ==
    [event |-> "input_event", ts |-> Timestamp(k),
     type |-> type, code |-> code, value |-> value, comm |-> ""]

SchedWakeupLine(k, comm) ==
    [event |-> "sched_wakeup", ts |-> Timestamp(k),
     type |-> 0, code |-> 0, value |-> 0, comm |-> comm]

\* A line neither pattern matches.
OtherLine ==
    [event |-> "irq_handler_entry", ts |-> Timestamp(1),
     type |-> 0, code |-> 0, value |-> 0, comm |-> ""]

\* The lines the traces are made of: touch presses, a touch release,
\* wakeups of the input threads and of another thread, another event.
TraceLines ==
    {InputEventLine(0, 1, 330, 1), InputEventLine(1, 1, 330, 1),
     InputEventLine(0, 1, 330, 0),
     SchedWakeupLine(1, "InputDispatcher"), SchedWakeupLine(2, "InputDispatcher"),
     SchedWakeupLine(5, "InputDispatcher"), SchedWakeupLine(3, "InputReader"),
     SchedWakeupLine(1, "kworker/0:1"),
     OtherLine}

\* Most lines of one trace file.
MaxLines == 4

\* 'InputDispatcher' in comm or 'InputReader' in comm
IsInputThread(comm) == comm \in {"InputDispatcher", "InputReader"}

\* ev_type == 1 and code == 330 and value == 1
IsGestureStart(line) == line.type = 1 /\ line.code = 330 /\ line.value = 1

\* (t2 - t1) * 1000
LatencyMs(t1, t2) == FMul(FSub(t2, t1), FromInt(1000))

\* 0 < latency_ms < 50
InRange(latency_ms) == FLt(Zero, latency_ms) /\ FLt(latency_ms, FromInt(50))

\* The inner loop: the first wakeup of the list after t1, measured if it
\* is in range; no other wakeup is looked at.
RECURSIVE Pair(_, _, _)
Pair(t1, wakeup_events, i) ==
    IF i > Len(wakeup_events) THEN <<>>
    ELSE IF FLt(t1, wakeup_events[i].ts)
    THEN LET latency_ms == LatencyMs(t1, wakeup_events[i].ts)
         IN  IF InRange(latency_ms)
             THEN <<[kernel_ts |-> t1, wakeup_ts |-> wakeup_events[i].ts,
                     latency_ms |-> latency_ms,
                     wakeup_thread |-> wakeup_events[i].comm]>>
             ELSE <<>>
    ELSE Pair(t1, wakeup_events, i + 1)

RECURSIVE Measure(_, _, _)
\* The outer loop over the gesture starts.
Measure(gesture_starts, wakeup_events, i) ==
    IF i > Len(gesture_starts) THEN <<>>
    ELSE Pair(gesture_starts[i].ts, wakeup_events, 1)
             \o Measure(gesture_starts, wakeup_events, i + 1)

parse_ftrace_file(file) ==
    IF ~file.readable THEN <<>>
    ELSE LET input_events ==
                 SelectSeq(file.lines, LAMBDA l : l.event = "input_event")
             wakeup_events ==
                 SelectSeq(file.lines, LAMBDA l : l.event = "sched_wakeup"
                                                    /\ IsInputThread(l.comm))
         IN  IF input_events = <<>> \/ wakeup_events = <<>> THEN <<>>
             ELSE Measure(SelectSeq(input_events, IsGestureStart), wakeup_events, 1)

InitParse ==
    /\ baseline_values = <<>>
    /\ esm_values = <<>>
    /\ lower_is_better = TRUE
    /\ d_value = Zero
    /\ results = <<>>
    /\ NoRun
    /\ \/ NoTrace
       \/ \E lines \in SeqsUpTo(TraceLines, MaxLines) :
              trace = [readable |-> TRUE, lines |-> lines]
    /\ NoEvents
    /\ NoGenerator
    /\ op = ""
    /\ ret = None

ParseFtraceFile ==
    /\ op = ""
    /\ op' = "parse_ftrace_file"
    /\ ret' = parse_ftrace_file(trace)
    /\ UNCHANGED <<baseline_values, esm_values, lower_is_better, d_value, results,
                   baseline_data, esm_data, pc, trace, events, generator>>

NextParse == ParseFtraceFile

SpecParse == InitParse /\ [][NextParse]_vars

---------------------------------------------------------------------------
\* calculate_per_event_latencies (src/scripts/parse_ftrace.py)

\* A TraceEvent, with the fields the function reads.
TraceEvent(k, event_type, details) ==
    [timestamp |-> Timestamp(k), event_type |-> event_type, details |-> details]

\* The details, among those drawn, that hold the name of a touchscreen
\* controller in some case of letters.
TouchDetails == {"irq=123 name=fts_touch", "irq=77 name=GOODIX-TS"}

is_touch_irq(event) ==
    event.event_type = "irq_handler_entry" /\ event.details \in TouchDetails

is_input_event(event) == event.event_type = "input_event"

\* The events the lists are made of: touch interrupts, another interrupt,
\* input events, another event.
TraceEvents ==
    {TraceEvent(0, "irq_handler_entry", "irq=123 name=fts_touch"),
     TraceEvent(1, "irq_handler_entry", "irq=77 name=GOODIX-TS"),
     TraceEvent(2, "irq_handler_entry", "irq=123 name=fts_touch"),
     TraceEvent(1, "irq_handler_entry", "irq=9 name=eth0"),
     TraceEvent(1, "input_event", "type=3 code=53 value=500"),
     TraceEvent(2, "input_event", "type=3 code=54 value=900"),
     TraceEvent(9, "input_event", "type=0 code=0 value=0"),
     TraceEvent(1, "sched_switch", "prev_comm=swapper")}

\* Most events of one list.
MaxEvents == 4

RECURSIVE InsertByTimestamp(_, _, _)
\* e put behind the last of the first i events that is not later than e.
InsertByTimestamp(sorted_events, e, i) ==
    IF i = 0 \/ FLe(sorted_events[i].timestamp, e.timestamp)
    THEN SubSeq(sorted_events, 1, i) \o <<e>>
             \o SubSeq(sorted_events, i + 1, Len(sorted_events))
    ELSE InsertByTimestamp(sorted_events, e, i - 1)

RECURSIVE SortedByTimestamp(_, _)
\* sorted(..., key=lambda e: e.timestamp) of the first n events: stable.
SortedByTimestamp(evs, n) ==
    IF n = 0 THEN <<>>
    ELSE LET before == SortedByTimestamp(evs, n - 1)
         IN  InsertByTimestamp(before, evs[n], Len(before))

\* (inp.timestamp - irq.timestamp) * 1000
EventLatency(irq, inp) == FMul(FSub(inp.timestamp, irq.timestamp), FromInt(1000))

\* 0 < latency < 100
IsSingleEventLatency(latency) == FLt(Zero, latency) /\ FLt(latency, FromInt(100))

\* AfterMatch with the matched input event used up.
AfterMatchConsumed(input_idx) == input_idx + 1

\* The input index after "break": still on the matched input event.
AfterMatch(input_idx) == input_idx

RECURSIVE MatchFrom(_, _, _, _, _)
\* The two loops, from the i-th interrupt and the input index input_idx
\* (counted from 0, as in the code).
MatchFrom(irq_events, input_events, i, input_idx, latencies) ==
    IF i > Len(irq_events) THEN latencies
    ELSE IF input_idx >= Len(input_events)
    THEN MatchFrom(irq_events, input_events, i + 1, input_idx, latencies)
    ELSE LET irq == irq_events[i]
             inp == input_events[input_idx + 1]
         IN  IF FLt(irq.timestamp, inp.timestamp)
             THEN LET latency == EventLatency(irq, inp)
                  IN  MatchFrom(irq_events, input_events, i + 1, AfterMatch(input_idx),
                                IF IsSingleEventLatency(latency)
                                THEN Append(latencies, latency) ELSE latencies)
             ELSE MatchFrom(irq_events, input_events, i, input_idx + 1, latencies)

calculate_per_event_latencies(evs) ==
    LET irqs == SelectSeq(evs, is_touch_irq)
        inputs == SelectSeq(evs, is_input_event)
        irq_events == SortedByTimestamp(irqs, Len(irqs))
        input_events == SortedByTimestamp(inputs, Len(inputs))
    IN  MatchFrom(irq_events, input_events, 1, 0, <<>>)

InitEvents ==
    /\ baseline_values = <<>>
    /\ esm_values = <<>>
    /\ lower_is_better = TRUE
    /\ d_value = Zero
    /\ results = <<>>
    /\ NoRun
    /\ NoTrace
    /\ events \in SeqsUpTo(TraceEvents, MaxEvents)
    /\ NoGenerator
    /\ op = ""
    /\ ret = None

CalculatePerEventLatencies ==
    /\ op = ""
    /\ op' = "calculate_per_event_latencies"
    /\ ret' = calculate_per_event_latencies(events)
    /\ UNCHANGED <<baseline_values, esm_values, lower_is_better, d_value, results,
                   baseline_data, esm_data, pc, trace, events, generator>>

NextEvents == CalculatePerEventLatencies

SpecEvents == InitEvents /\ [][NextEvents]_vars

---------------------------------------------------------------------------
\* InputGenerator.mixed_interaction (src/scripts/generate_input.py)
\* The clock counts tenths of a second.  The progress lines written to
\* stderr are not state.

\* Longest duration_seconds of a run.
MaxDuration == 2

\* Longest time, in tenths of a second, that passes between two readings of
\* the clock, or that an ADB command takes, beyond the sleep.
MaxDelay == 2

Seconds(n) == 10 * n

\* random.choice(['tap', 'tap', 'scroll', 'swipe'])
Actions == {"tap", "scroll", "swipe"}

\* The command that tap and swipe hand to _run_adb, without the coordinates.
AdbCommand(action) ==
    CASE action = "tap" -> "input tap"
      [] action = "scroll" -> "input swipe 500"
      [] action = "swipe" -> "input swipe 200"

\* The counter of the action.
CounterOf(action) ==
    CASE action = "tap" -> "taps"
      [] action = "scroll" -> "scrolls"
      [] action = "swipe" -> "swipes"

\* EventsOf with every gesture counted as a fast swipe.
EventsOfGesture(action) == IF action = "tap" THEN 1 ELSE 100

\* What the action adds to total_events.
EventsOf(action) ==
    CASE action = "tap" -> 1
      [] action = "scroll" -> 50
      [] action = "swipe" -> 100

\* time.sleep of the action, in tenths of a second.
SleepOf(action) ==
    CASE action = "tap" -> 1
      [] action = "scroll" -> 6
      [] action = "swipe" -> 4

InitGenerator ==
    /\ baseline_values = <<>>
    /\ esm_values = <<>>
    /\ lower_is_better = TRUE
    /\ d_value = Zero
    /\ results = <<>>
    /\ NoRun
    /\ NoTrace
    /\ NoEvents
    /\ duration_seconds \in 0..MaxDuration
    /\ now \in 0..MaxDelay
    /\ start_time = 0
    /\ elapsed = 0
    /\ stats = NoStats
    /\ adb_commands = EmptyBag
    /\ gen_pc = "call"
    /\ op = ""
    /\ ret = None

\* stats = {...}; start_time = time.time(); end_time = start_time + duration_seconds
MixedStart ==
    /\ gen_pc = "call"
    /\ stats' = NoStats
    /\ start_time' = now
    /\ gen_pc' = "while"
    /\ UNCHANGED <<baseline_values, esm_values, lower_is_better, d_value, results,
                   baseline_data, esm_data, pc, trace, events, duration_seconds,
                   now, elapsed, adb_commands, op, ret>>

\* while time.time() < end_time
WhileTest ==
    /\ gen_pc = "while"
    /\ gen_pc' = IF now < start_time + Seconds(duration_seconds)
                  THEN "body" ELSE "done"
    /\ UNCHANGED <<baseline_values, esm_values, lower_is_better, d_value, results,
                   baseline_data, esm_data, pc, trace, events, duration_seconds,
                   now, start_time, elapsed, stats, adb_commands, op, ret>>

\* elapsed = time.time() - start_time; remaining = duration_seconds - elapsed;
\* if remaining < 1: break
LoopBody ==
    /\ gen_pc = "body"
    /\ \E delay \in 0..MaxDelay :
           /\ now' = now + delay
           /\ elapsed' = now' - start_time
    /\ gen_pc' = IF Seconds(duration_seconds) - elapsed' < Seconds(1)
                  THEN "done" ELSE "action"
    /\ UNCHANGED <<baseline_values, esm_values, lower_is_better, d_value, results,
                   baseline_data, esm_data, pc, trace, events, duration_seconds,
                   start_time, stats, adb_commands, op, ret>>

\* One branch of the if: the ADB command, whose return code nobody reads, the
\* two counters, the sleep.
Act(action) ==
    /\ gen_pc = "action"
    /\ adb_commands' = adb_commands (+) SetToBag({AdbCommand(action)})
    /\ stats' = [stats EXCEPT ![CounterOf(action)] = @ + 1,
                              !.total_events = @ + EventsOf(action)]
    /\ \E delay \in 0..MaxDelay : now' = now + delay + SleepOf(action)
    /\ gen_pc' = "while"
    /\ UNCHANGED <<baseline_values, esm_values, lower_is_better, d_value, results,
                   baseline_data, esm_data, pc, trace, events, duration_seconds,
                   start_time, elapsed, op, ret>>

Tap == Act("tap")

Scroll == Act("scroll")

Swipe == Act("swipe")

\* return stats
MixedReturn ==
    /\ gen_pc = "done"
    /\ gen_pc' = "returned"
    /\ op' = "mixed_interaction"
    /\ ret' = stats
    /\ UNCHANGED <<baseline_values, esm_values, lower_is_better, d_value, results,
                   baseline_data, esm_data, pc, trace, events, duration_seconds,
                   now, start_time, elapsed, stats, adb_commands>>

NextGenerator ==
    \/ MixedStart
    \/ WhileTest
    \/ LoopBody
    \/ Tap
    \/ Scroll
    \/ Swipe
    \/ MixedReturn

SpecGenerator == InitGenerator /\ [][NextGenerator]_vars

---------------------------------------------------------------------------
\* Properties

Listed(names, name) == \E i \in 1..Len(names) : names[i] = name

Returned(name) == op = name

Raised(x) == x = ZeroDivisionError

\* C1: in the Conclusions of generate_report every non-error record is
\* listed under Validated exactly when it is significant and improved,
\* under Unvalidated exactly when it is not improved, and never under both
\* (so an improved, not significant record is listed under neither).
C1_ConclusionsPartition ==
    Returned("generate_report") =>
        \A i \in 1..Len(results) :
            ~IsError(results[i]) =>
                LET r == results[i]
                    validated == Listed(ret.validated, r.metric)
                    refuted == Listed(ret.refuted, r.metric)
                IN  /\ validated <=> (r.significant /\ r.improved)
                    /\ refuted <=> ~r.improved
                    /\ ~(validated /\ refuted)

\* A report of three records: significant and improved, significant and not
\* improved, improved and not significant.
C1_Witness ==
    /\ Returned("generate_report")
    /\ Len(results) = 3
    /\ \A i \in 1..3 : ~IsError(results[i])
    /\ results[1].significant /\ results[1].improved
    /\ results[2].significant /\ ~results[2].improved
    /\ ~results[3].significant /\ results[3].improved
    /\ ret.validated = <<MetricNames[1]>>
    /\ ret.refuted = <<MetricNames[2]>>

\* C2: analyze_metric with an empty baseline sample, an empty candidate
\* sample or both returns the record of exactly the two fields metric (the
\* name given) and error = "Insufficient data"; it does not raise.
C2_InsufficientData ==
    (Returned("analyze_metric") /\ (Len(baseline_values) = 0 \/ Len(esm_values) = 0))
        => ret = [metric |-> MetricName, error |-> "Insufficient data"]

\* An empty candidate sample beside a baseline whose mean is 0.
C2_Witness ==
    /\ Returned("analyze_metric")
    /\ baseline_values = <<Zero>>
    /\ esm_values = <<>>
    /\ DOMAIN ret = {"metric", "error"}

\* C3: analyze_metric never raises; a baseline mean of zero is signalled as
\* a value.
C3_NeverRaises == Returned("analyze_metric") => ~Raised(ret)

\* C4: for non-empty samples and a baseline mean other than zero,
\* improvement_pct and improved follow the polarity: (baseline - candidate)
\* / baseline * 100 and candidate < baseline when lower is better,
\* (candidate - baseline) / baseline * 100 and candidate > baseline
\* otherwise; equal means are not an improvement; means 100 and 80 with
\* lower is better give 20.0 and True.
C4_Polarity ==
    (Returned("analyze_metric") /\ ~IsError(ret) /\ ~Raised(ret)) =>
        LET b == ret.baseline.mean
            c == ret.esm.mean
        IN  /\ lower_is_better =>
                /\ ret.improvement_pct = FMul(FDiv(FSub(b, c), b), FromInt(100))
                /\ ret.improved = FLt(c, b)
            /\ ~lower_is_better =>
                /\ ret.improvement_pct = FMul(FDiv(FSub(c, b), b), FromInt(100))
                /\ ret.improved = FLt(b, c)
            /\ b = c => ~ret.improved
            /\ (lower_is_better /\ b = FromInt(100) /\ c = FromInt(80)) =>
                (ret.improvement_pct = FromInt(20) /\ ret.improved)

\* The worked example: means 100 and 80, lower is better.
C4_Witness ==
    /\ Returned("analyze_metric")
    /\ baseline_values = Floats(<<100, 100>>)
    /\ esm_values = Floats(<<80, 80>>)
    /\ lower_is_better
    /\ ret.improvement_pct = FromInt(20)
    /\ ret.improved

PolarityAgnosticFields ==
    {"baseline", "esm", "t_statistic", "p_value", "cohens_d", "effect_size",
     "significant"}

\* C5: for one pair of non-empty samples, the call with the other polarity
\* returns the same statistics of both samples, t, p, d, effect size label
\* and significance.
C5_PolarityAgnostic ==
    (Returned("analyze_metric") /\ ~IsError(ret) /\ ~Raised(ret)) =>
        LET other == analyze_metric(baseline_values, esm_values, MetricName,
                                    ~lower_is_better)
        IN  /\ ~IsError(other) /\ ~Raised(other)
            /\ \A f \in PolarityAgnosticFields : other[f] = ret[f]

\* A significant comparison with a t other than 0 that is an improvement
\* under one polarity and none under the other.
C5_Witness ==
    /\ Returned("analyze_metric")
    /\ ~IsError(ret) /\ ~Raised(ret)
    /\ ret.significant /\ ret.improved /\ ret.t_statistic # Zero
    /\ ~analyze_metric(baseline_values, esm_values, MetricName,
                       ~lower_is_better).improved

\* C6: for a non-empty sample calculate_stats returns n = len(sample),
\* ci_lower <= mean <= ci_upper and min_val <= mean <= max_val; for a
\* sample of one element, std = 0 and ci_lower = ci_upper = mean = the
\* element.
C6_StatsInvariant ==
    (Returned("calculate_stats") /\ Len(baseline_values) > 0) =>
        /\ ret.n = Len(baseline_values)
        /\ FLe(ret.ci_lower, ret.mean) /\ FLe(ret.mean, ret.ci_upper)
        /\ FLe(ret.min_val, ret.mean) /\ FLe(ret.mean, ret.max_val)
        /\ Len(baseline_values) = 1 =>
            /\ ret.std = Zero
            /\ ret.mean = baseline_values[1]
            /\ ret.ci_lower = ret.mean /\ ret.ci_upper = ret.mean

\* The standard error welch_t_test computes for the two samples.
StandardErrorOf(sample1, sample2) ==
    StandardError(Variance(sample1, Mean(sample1)), Len(sample1),
                  Variance(sample2, Mean(sample2)), Len(sample2))

\* The pooled standard deviation cohens_d computes for the two samples.
PooledStdOf(sample1, sample2) ==
    PooledStd(Variance(sample1, Mean(sample1)), Len(sample1),
              Variance(sample2, Mean(sample2)), Len(sample2))

\* C7: welch_t_test returns exactly (0.0, 1.0) when a sample has fewer than
\* 2 observations or the standard error is 0, cohens_d exactly 0.0 when a
\* sample has fewer than 2 observations or the pooled standard deviation is
\* 0, and neither divides by zero for any pair of samples.
C7_NeutralValues ==
    LET small == Len(baseline_values) < 2 \/ Len(esm_values) < 2
    IN  /\ Returned("welch_t_test") =>
            /\ ~Raised(ret)
            /\ (small \/ StandardErrorOf(baseline_values, esm_values) = Zero)
                   => ret = [t |-> Zero, p |-> One]
        /\ Returned("cohens_d") =>
            /\ ~Raised(ret)
            /\ (small \/ PooledStdOf(baseline_values, esm_values) = Zero)
                   => ret = Zero

\* Two constant samples of different means: the standard error is 0.
C7_Witness ==
    /\ Returned("welch_t_test")
    /\ baseline_values = Floats(<<2, 2>>)
    /\ esm_values = Floats(<<31, 31>>)
    /\ StandardErrorOf(baseline_values, esm_values) = Zero
    /\ ret = [t |-> Zero, p |-> One]

\* C8: with the two samples swapped, welch_t_test returns the negated t
\* and the same p, and cohens_d the negated d.
C8_SwapAntisymmetry ==
    /\ Returned("welch_t_test") =>
           LET swapped == welch_t_test(esm_values, baseline_values)
           IN  ~Raised(ret) /\ ~Raised(swapped)
               /\ swapped.t = FNeg(ret.t) /\ swapped.p = ret.p
    /\ Returned("cohens_d") =>
           cohens_d(esm_values, baseline_values) = FNeg(ret)

\* Samples of different sizes and a t above 0 with p below 1.
C8_Witness ==
    /\ Returned("welch_t_test")
    /\ Len(baseline_values) # Len(esm_values)
    /\ ret.t.m > 0
    /\ ret.p # One
    /\ welch_t_test(esm_values, baseline_values).t.m < 0

Count(sample, v) == Cardinality({i \in 1..Len(sample) : sample[i] = v})

SameMultiset(sample1, sample2) ==
    /\ Len(sample1) = Len(sample2)
    /\ \A i \in 1..Len(sample1) : Count(sample1, sample1[i]) = Count(sample2, sample1[i])

\* C9: for two samples that are the same multiset, in any order,
\* welch_t_test returns t = 0 and p = 1.0 and cohens_d returns 0.
C9_IdenticalMultisets ==
    SameMultiset(baseline_values, esm_values) =>
        /\ Returned("welch_t_test") => ret = [t |-> Zero, p |-> One]
        /\ Returned("cohens_d") => ret = Zero

Labels == {"negligible", "small", "medium", "large"}

\* C10: effect_size_interpretation returns exactly one of the four labels,
\* by |d| in bands inclusive on the lower edge (below 0.2 negligible, from
\* 0.2 below 0.5 small, from 0.5 below 0.8 medium, from 0.8 large), the same
\* for d and -d.
C10_EffectBands ==
    Returned("effect_size_interpretation") =>
        LET a == FAbs(d_value)
        IN  /\ ret \in Labels
            /\ ret = "negligible" <=> FLt(a, Literal(2, 10))
            /\ ret = "small" <=> (FLe(Literal(2, 10), a) /\ FLt(a, Literal(5, 10)))
            /\ ret = "medium" <=> (FLe(Literal(5, 10), a) /\ FLt(a, Literal(8, 10)))
            /\ ret = "large" <=> FLe(Literal(8, 10), a)
            /\ effect_size_interpretation(FNeg(d_value)) = ret

\* d = -0.2, on the lower edge of the band "small".
C10_Witness ==
    /\ Returned("effect_size_interpretation")
    /\ d_value = FNeg(Literal(2, 10))
    /\ ret = "small"

\* The records generate_report writes a detail block for.
NonErrors(rs) == SelectSeq(rs, LAMBDA r : ~IsError(r))

\* C11: in every non-error result of analyze_metric, significant is True
\* exactly when p_value < 0.05, strictly (a p-value of 0.05 is not
\* significant), and generate_report writes the marker "*" in the Summary
\* row and "Yes" in the detail block of a metric exactly when the flag is
\* True.
C11_SignificanceMarker ==
    /\ ~Significant(Literal(5, 100))
    /\ Returned("generate_report") =>
           LET kept == NonErrors(results)
           IN  /\ Len(ret.summary) = Len(results)
               /\ Len(ret.details) = Len(kept)
               /\ \A i \in 1..Len(results) :
                      ~IsError(results[i]) =>
                          /\ results[i].significant
                                 <=> FLt(results[i].p_value, Literal(5, 100))
                          /\ ret.summary[i].sig = "*" <=> results[i].significant
                          /\ ret.summary[i].sig \in {"*", ""}
               /\ \A j \in 1..Len(kept) :
                      /\ ret.details[j].significant = "Yes" <=> kept[j].significant
                      /\ ret.details[j].significant \in {"Yes", "No"}

\* A report of a significant record and of one whose p-value, 1/16, is
\* just above the threshold.
C11_Witness ==
    /\ Returned("generate_report")
    /\ Len(results) = 2
    /\ ~IsError(results[1]) /\ ~IsError(results[2])
    /\ results[1].significant
    /\ results[2].p_value = Literal(1, 16) /\ ~results[2].significant
    /\ ret.summary[1].sig = "*" /\ ret.summary[2].sig = ""
    /\ ret.details[1].significant = "Yes" /\ ret.details[2].significant = "No"

\* What welch_t_test returns for the pairs of samples drawn.
WelchResults ==
    {welch_t_test(sample1, sample2) : sample1 \in PairSamples, sample2 \in PairSamples}

\* C12: where welch_t_test returns a t other than the neutral result, the
\* p-value is 2 * (1 - Phi(|t|)) with Phi(x) = 0.5 * (1 + erf(x / sqrt(2))):
\* it lies in [0, 1], and against the result of any other pair of samples
\* (whatever their sizes, variances and degrees of freedom) an equal |t|
\* gives an equal p and a larger |t| no larger p.
C12_PValueOfT ==
    (Returned("welch_t_test") /\ ~Raised(ret) /\ ret # NoEvidence) =>
        LET a == FAbs(ret.t)
            phi == FMul(Half, FAdd(One, Erf(FDiv(a, FSqrt(Two)))))
        IN  /\ ret.p = FMul(Two, FSub(One, phi))
            /\ FLe(Zero, ret.p) /\ FLe(ret.p, One)
            /\ \A other \in WelchResults :
                   ~Raised(other) =>
                       /\ FAbs(other.t) = a => other.p = ret.p
                       /\ FLe(a, FAbs(other.t)) => FLe(other.p, ret.p)
                       /\ FLe(FAbs(other.t), a) => FLe(ret.p, other.p)

\* Samples of different sizes and variances with 0 < p < 1, beside a
\* result of larger |t| and smaller p and one of the opposite t and the
\* same p.
C12_Witness ==
    /\ Returned("welch_t_test") /\ ~Raised(ret)
    /\ Len(baseline_values) # Len(esm_values)
    /\ FLt(Zero, ret.p) /\ FLt(ret.p, One)
    /\ \E other \in WelchResults :
           FLt(FAbs(ret.t), FAbs(other.t)) /\ FLt(other.p, ret.p)
    /\ \E other \in WelchResults : other.t = FNeg(ret.t) /\ other.p = ret.p

\* The margin of the confidence interval of the statistics st: the critical
\* value 1.96 above 30 observations and 2.0 up to 30, times std / sqrt(n).
MarginOf(st) ==
    FMul(IF st.n > 30 THEN Literal(196, 100) ELSE FromInt(2),
         FDiv(st.std, FSqrt(FromInt(st.n))))

\* C13 as amended: for a sample of n >= 2, calculate_stats takes the margin
\* t * std / sqrt(n) with t = 1.96 when n > 30 and t = 2.0 otherwise (2.0
\* at n = 30, 1.96 at n = 31) and returns ci_lower = mean - margin and
\* ci_upper = mean + margin, each rounded once.
C13_MarginAndInterval ==
    (Returned("calculate_stats") /\ Len(baseline_values) >= 2) =>
        /\ ret.ci_lower = FSub(ret.mean, MarginOf(ret))
        /\ ret.ci_upper = FAdd(ret.mean, MarginOf(ret))

\* A sample of 30 observations and a margin other than 0.
C13_Witness ==
    /\ Returned("calculate_stats")
    /\ Len(baseline_values) = 30
    /\ MarginOf(ret) # Zero
    /\ MarginOf(ret) = FMul(Two, FDiv(ret.std, FSqrt(FromInt(30))))
    /\ ret.ci_upper # ret.mean

\* C13: for a sample of n >= 2, calculate_stats takes the margin
\* t * std / sqrt(n) with t = 1.96 when n > 30 and t = 2.0 otherwise, and
\* the interval is symmetric about the mean: ci_upper - mean =
\* mean - ci_lower = margin.
C13_SymmetricInterval ==
    (Returned("calculate_stats") /\ Len(baseline_values) >= 2) =>
        /\ FSub(ret.ci_upper, ret.mean) = MarginOf(ret)
        /\ FSub(ret.mean, ret.ci_lower) = MarginOf(ret)

\* C14: for every error record handed to generate_report, the Summary has
\* one row of only its metric name and error text, the Detailed Results
\* have no block for it and neither Conclusions list names it; every other
\* record still has its Summary row and its detail block, and is listed in
\* the Conclusions by its flags.
C14_ErrorRecordsRendered ==
    Returned("generate_report") =>
        /\ Len(ret.summary) = Len(results)
        /\ Len(ret.details) = Len(NonErrors(results))
        /\ \A i \in 1..Len(results) :
               LET r == results[i]
                   blocks == {j \in 1..Len(ret.details) : ret.details[j].metric = r.metric}
               IN  IF IsError(r)
                   THEN /\ ret.summary[i] = [metric |-> r.metric, error |-> r.error]
                        /\ blocks = {}
                        /\ ~Listed(ret.validated, r.metric)
                        /\ ~Listed(ret.refuted, r.metric)
                   ELSE /\ ret.summary[i].metric = r.metric
                        /\ ret.summary[i].p_value = r.p_value
                        /\ Cardinality(blocks) = 1
                        /\ \A j \in blocks : ret.details[j].baseline = r.baseline
                        /\ Listed(ret.validated, r.metric) <=> (r.significant /\ r.improved)
                        /\ Listed(ret.refuted, r.metric) <=> ~r.improved

\* An error record between a record listed under Unvalidated and one
\* listed under Validated.
C14_Witness ==
    /\ Returned("generate_report")
    /\ Len(results) = 3
    /\ ~IsError(results[1]) /\ IsError(results[2]) /\ ~IsError(results[3])
    /\ ret.summary[2] = [metric |-> MetricNames[2], error |-> "Insufficient data"]
    /\ Len(ret.details) = 2
    /\ ret.details[2].metric = MetricNames[3]
    /\ ret.refuted = <<MetricNames[1]>>
    /\ ret.validated = <<MetricNames[3]>>

\* The order in which the metrics are requested.
RequestOrder ==
    <<"Latency - Single Tap (ms)", "Latency - Scroll (ms)",
      "Latency - Fast Swipe (ms)", "CPU - system_server (%)",
      "CPU - Total (%)", "Syscalls (per 100 events)", "Wakeups per second">>

\* The place of a metric in the request order.
PlaceOf(name) == CHOOSE i \in 1..Len(RequestOrder) : RequestOrder[i] = name

\* The names are requested metrics, each before the next in request order.
InRequestOrder(names) ==
    /\ \A i \in 1..Len(names) : \E k \in 1..Len(RequestOrder) : RequestOrder[k] = names[i]
    /\ \A i \in 1..Len(names), j \in 1..Len(names) :
           i < j => PlaceOf(names[i]) < PlaceOf(names[j])

\* The report main has written.
Reported == Returned("main") /\ ~Raised(ret) /\ ret # NoResults

\* C15: the results of main are at every step in request order (single
\* tap, scroll, fast swipe, CPU system_server, CPU total, syscalls,
\* wakeups), and the report has one Summary row per record, the detail
\* blocks and each Conclusions list in the order of the records.
C15_RequestOrder ==
    /\ pc > 0 => InRequestOrder(Metrics(results))
    /\ Reported =>
           /\ Len(ret.summary) = Len(results)
           /\ \A i \in 1..Len(results) : ret.summary[i].metric = results[i].metric
           /\ [j \in 1..Len(ret.details) |-> ret.details[j].metric]
                  = Metrics(NonErrors(results))
           /\ InRequestOrder(ret.validated)
           /\ InRequestOrder(ret.refuted)

\* A report of seven records, two of them listed under Unvalidated and
\* five under Validated.
C15_Witness ==
    /\ Reported
    /\ Metrics(results) = RequestOrder
    /\ Len(ret.summary) = 7
    /\ Len(ret.refuted) = 2
    /\ Len(ret.validated) = 5

\* C16: in a run of main, a metric with an empty baseline or candidate
\* sample has an "Insufficient data" record of its name in the Summary of
\* the report main writes, and every other metric has its row too.
C16_EmptySampleSurfaced ==
    Reported =>
        \A i \in 1..Len(MetricNames) :
               \E k \in 1..Len(ret.summary) :
                   /\ ret.summary[k].metric = MetricNames[i]
                   /\ (baseline_data[i] = <<>> \/ esm_data[i] = <<>>)
                          <=> ret.summary[k] = [metric |-> MetricNames[i],
                                                error |-> "Insufficient data"]

\* The samples of the end-to-end example.
EndToEndBaseline == Floats(<<10, 12, 11, 13, 9, 10, 11, 12>>)
EndToEndCandidate == Floats(<<8, 9, 8, 10, 7, 8, 9, 8>>)

\* C17: analyze_metric on baseline [10,12,11,13,9,10,11,12] and candidate
\* [8,9,8,10,7,8,9,8] with lower_is_better = True returns
\* improvement_pct > 0, improved = True and effect_size = "large", with
\* |d| >= 0.8.
C17_EndToEnd ==
    (/\ Returned("analyze_metric")
     /\ baseline_values = EndToEndBaseline
     /\ esm_values = EndToEndCandidate
     /\ lower_is_better) =>
        /\ ~Raised(ret) /\ ~IsError(ret)
        /\ FLt(Zero, ret.improvement_pct)
        /\ ret.improved
        /\ ret.effect_size = "large"
        /\ FLe(Literal(8, 10), FAbs(ret.cohens_d))

\* The end-to-end example has been analysed: 8 observations a side, the
\* candidate mean below the baseline mean.
C17_Witness ==
    /\ Returned("analyze_metric")
    /\ baseline_values = EndToEndBaseline
    /\ esm_values = EndToEndCandidate
    /\ lower_is_better
    /\ ret.baseline.n = 8 /\ ret.esm.n = 8
    /\ FLt(ret.esm.mean, ret.baseline.mean)
    /\ ret.effect_size = "large"

\* Every observation of the sample is the same number.
IsConstant(sample) == \A i \in 1..Len(sample) : sample[i] = sample[1]

\* C18: where both samples are non-empty and one has fewer than 2
\* observations, or both are constant (of the same mean or not), what
\* analyze_metric returns has t_statistic = 0, p_value = 1.0, cohens_d = 0,
\* effect_size = "negligible" and significant = False; generate_report
\* never lists it under Validated, and lists it under Unvalidated exactly
\* when it is not improved.
C18_DegenerateNeverValidated ==
    (/\ Returned("analyze_metric") /\ ~Raised(ret)
     /\ Len(baseline_values) > 0 /\ Len(esm_values) > 0
     /\ \/ Len(baseline_values) < 2
        \/ Len(esm_values) < 2
        \/ IsConstant(baseline_values) /\ IsConstant(esm_values)) =>
        /\ ret.t_statistic = Zero
        /\ ret.p_value = One
        /\ ret.cohens_d = Zero
        /\ ret.effect_size = "negligible"
        /\ ~ret.significant
        /\ generate_report(<<ret>>).validated = <<>>
        /\ generate_report(<<ret>>).refuted = <<ret.metric>> <=> ~ret.improved

\* C19: in every non-error result of analyze_metric, under either
\* polarity, improved is True exactly when improvement_pct has the strict
\* sign of the baseline mean: improved <=> improvement_pct > 0 for a
\* positive baseline mean, improved <=> improvement_pct < 0 for a negative
\* one.
C19_ImprovedSign ==
    (Returned("analyze_metric") /\ ~IsError(ret) /\ ~Raised(ret)) =>
        /\ FLt(Zero, ret.baseline.mean) =>
               (ret.improved <=> FLt(Zero, ret.improvement_pct))
        /\ FLt(ret.baseline.mean, Zero) =>
               (ret.improved <=> FLt(ret.improvement_pct, Zero))

\* A negative baseline mean, higher is better: an improved result with a
\* negative percentage.
C19_Witness ==
    /\ Returned("analyze_metric") /\ ~IsError(ret) /\ ~Raised(ret)
    /\ ~lower_is_better
    /\ FLt(ret.baseline.mean, Zero)
    /\ ret.improved
    /\ FLt(ret.improvement_pct, Zero)

\* The timestamps of the gesture starts of the trace (input_event lines
\* with type=1, code=330, value=1), in file order.
GestureStartTimes ==
    LET starts == SelectSeq(trace.lines,
                            LAMBDA l : l.event = "input_event" /\ l.type = 1
                                       /\ l.code = 330 /\ l.value = 1)
    IN  [i \in 1..Len(starts) |-> starts[i].ts]

\* The timestamps of the InputDispatcher and InputReader wakeups after t1.
WakeupTimesAfter(t1) ==
    {trace.lines[i].ts : i \in {j \in 1..Len(trace.lines) :
        /\ trace.lines[j].event = "sched_wakeup"
        /\ trace.lines[j].comm \in {"InputDispatcher", "InputReader"}
        /\ FLt(t1, trace.lines[j].ts)}}

\* The measurement of the gesture start at t1: with its next wakeup, the
\* one of the smallest timestamp t2 > t1, if 0 < (t2 - t1) * 1000 < 50.
MeasurementOf(t1) ==
    LET later == WakeupTimesAfter(t1)
    IN  IF later = {} THEN <<>>
        ELSE LET t2 == CHOOSE t \in later : \A u \in later : FLe(t, u)
                 latency_ms == FMul(FSub(t2, t1), FromInt(1000))
             IN  IF FLt(Zero, latency_ms) /\ FLt(latency_ms, FromInt(50))
                 THEN <<[kernel_ts |-> t1, wakeup_ts |-> t2, latency_ms |-> latency_ms]>>
                 ELSE <<>>

RECURSIVE MeasurementsFrom(_, _)
MeasurementsFrom(times, i) ==
    IF i > Len(times) THEN <<>>
    ELSE MeasurementOf(times[i]) \o MeasurementsFrom(times, i + 1)

\* C20: parse_ftrace_file returns, for the gesture starts of the trace in
\* their order, at most one measurement each: a gesture start at t1 is
\* paired with the input thread wakeup of the smallest timestamp t2 > t1,
\* and the measurement is kept only when 0 < (t2 - t1) * 1000 < 50; a
\* start whose next wakeup is out of range has none.
C20_NextWakeup ==
    (Returned("parse_ftrace_file") /\ trace.readable) =>
        [i \in 1..Len(ret) |->
            [kernel_ts |-> ret[i].kernel_ts, wakeup_ts |-> ret[i].wakeup_ts,
             latency_ms |-> ret[i].latency_ms]]
            = MeasurementsFrom(GestureStartTimes, 1)

\* The timestamps of the touch interrupts among the events, in file order.
IrqTimes ==
    LET irqs == SelectSeq(events,
                          LAMBDA e : e.event_type = "irq_handler_entry"
                                     /\ e.details \in {"irq=123 name=fts_touch",
                                                        "irq=77 name=GOODIX-TS"})
    IN  [i \in 1..Len(irqs) |-> irqs[i].timestamp]

\* The timestamps of the input events later than t1.
InputTimesAfter(t1) ==
    {events[i].timestamp : i \in {j \in 1..Len(events) :
        events[j].event_type = "input_event" /\ FLt(t1, events[j].timestamp)}}

RECURSIVE Ascending(_)
\* The numbers of the sequence from the least to the greatest.
Ascending(times) ==
    IF times = <<>> THEN <<>>
    ELSE LET least == CHOOSE i \in 1..Len(times) :
                          \A j \in 1..Len(times) : FLe(times[i], times[j])
         IN  <<times[least]>>
                 \o Ascending(SubSeq(times, 1, least - 1)
                                  \o SubSeq(times, least + 1, Len(times)))

\* The latency of the interrupt at t1: to the first input event after it,
\* if that is within 0 and 100 ms.
LatencyOfIrq(t1) ==
    LET later == InputTimesAfter(t1)
    IN  IF later = {} THEN <<>>
        ELSE LET t2 == CHOOSE t \in later : \A u \in later : FLe(t, u)
                 latency == FMul(FSub(t2, t1), FromInt(1000))
             IN  IF FLt(Zero, latency) /\ FLt(latency, FromInt(100))
                 THEN <<latency>> ELSE <<>>

RECURSIVE LatenciesFrom(_, _)
LatenciesFrom(times, i) ==
    IF i > Len(times) THEN <<>>
    ELSE LatencyOfIrq(times[i]) \o LatenciesFrom(times, i + 1)

\* C21: calculate_per_event_latencies returns, for the touch interrupts in
\* timestamp order, the latency of each to the first input event of a
\* strictly greater timestamp, where that latency is strictly between 0
\* and 100 ms: at most one latency per interrupt, none for an interrupt
\* without a later input event.
C21_PerEventLatencies ==
    Returned("calculate_per_event_latencies") =>
        /\ ret = LatenciesFrom(Ascending(IrqTimes), 1)
        /\ Len(ret) <= Len(IrqTimes)
        /\ \A i \in 1..Len(ret) : FLt(Zero, ret[i]) /\ FLt(ret[i], FromInt(100))

\* Two interrupts, the later one first in the list, matched to the same
\* input event, and a third one with no later input event.
C21_Witness ==
    /\ Returned("calculate_per_event_latencies")
    /\ Len(IrqTimes) = 3
    /\ IrqTimes[1] = Timestamp(1) /\ IrqTimes[2] = Timestamp(0)
    /\ IrqTimes[3] = Timestamp(2)
    /\ Len(ret) = 2
    /\ FLt(ret[2], ret[1])

\* total_events = taps + 50*scrolls + 100*swipes in the dictionary d.
CountersConsistent(d) == d.total_events = d.taps + 50 * d.scrolls + 100 * d.swipes

\* The three action counters.
ActionCounters == {"taps", "scrolls", "swipes"}

\* One step of a counter that went up by one while the two others stayed.
OneCounterUp ==
    \E c \in ActionCounters :
        /\ stats'[c] = stats[c] + 1
        /\ \A other \in ActionCounters \ {c} : stats'[other] = stats[other]

\* C22: in mixed_interaction total_events = taps + 50*scrolls + 100*swipes
\* holds after every pass of the loop and in the returned dictionary; a pass
\* that takes an action raises exactly one of taps, scrolls, swipes by one
\* and issues exactly one ADB input command, every other step (the loop
\* test, the pass that leaves at remaining < 1, the return) leaves counters
\* and commands alone, and no counter ever decreases.
C22_CountersConsistent ==
    /\ [](CountersConsistent(stats)
           /\ BagCardinality(adb_commands)
                  = stats.taps + stats.scrolls + stats.swipes
           /\ (Returned("mixed_interaction")
                  => ret = stats /\ CountersConsistent(ret)))
    /\ [][/\ \A c \in DOMAIN stats : stats'[c] >= stats[c]
           /\ IF gen_pc = "action"
              THEN /\ OneCounterUp
                   /\ BagCardinality(adb_commands') = BagCardinality(adb_commands) + 1
              ELSE stats' = stats /\ adb_commands' = adb_commands]_vars

\* A returned dictionary with taps, a scroll and a swipe in it.
C22_Witness ==
    /\ Returned("mixed_interaction")
    /\ ret.taps > 1
    /\ ret.scrolls > 0
    /\ ret.swipes > 0
    /\ ret.total_events = ret.taps + 150

=============================================================================
